---- MODULE Spec2Model ----
(***************************************************************************)
(* sanhok::net::ConnectionUDP (src/sanhok/net/connection_udp.hpp).         *)
(*                                                                         *)
(* One connection object, used by caller threads, by the coroutines that   *)
(* open() and send_packet() spawn on the io_context, and by the dispatch   *)
(* threads that open() starts and detaches.  Every step between two points *)
(* where another thread can observe or change the object is one action.    *)
(***************************************************************************)
EXTENDS Naturals, Sequences, FiniteSets

\* ----------------------------------------------------------------- bounds
\* Successful open() calls (each spawns one receive loop and one worker).
MaxOpens == 2
\* Datagrams the network delivers.
MaxRecv == 2
\* send_packet calls that reach co_spawn.
MaxSends == 1
\* receive_buffer_size_, the constructor's parameter (65536 by default).
ReceiveBufferSize == 2

\* Two caller threads: enough for a call to race with another call.
Callers == {<<"caller", "a">>, <<"caller", "b">>}
Sessions == 1..MaxOpens
Loops == {<<"recv", i>> : i \in Sessions}
Sends == {<<"send", i>> : i \in 1..MaxSends}
Workers == {<<"worker", i>> : i \in Sessions}
\* Everything that can be inside close(): a caller thread or a coroutine.
Closers == Callers \cup Loops \cup Sends
Procs == Closers \cup Workers

VARIABLES
    is_open,     \* std::atomic<bool> is_open_
    socket,      \* socket_: "open" (bound descriptor) or "closed"
    queue,       \* receive_queue_: buffers pushed and not yet popped
    pc,          \* where each thread / coroutine stands
    buf,         \* the buffer a receive coroutine or a worker holds (0: none)
    life,        \* "alive", "dying" (in the destructor), "destroyed", "terminated"
    nopen,       \* open() calls that flipped the flag (sessions started)
    nrecv,       \* receives completed without error (datagram k is the k-th)
    nsend,       \* send coroutines spawned
    handled,     \* datagrams in the order on_packet_ was entered with them
    dropped,     \* datagrams removed by receive_queue_.clear()
    nflip,       \* close() calls that flipped the flag
    nclear,      \* receive_queue_.clear() calls
    nrelease,    \* socket_.close() calls
    failed,      \* "no", or the failure ("recv", "send") whose close() first flipped the flag
    last,        \* what the latest step was, for the steps in Traced
    remote,      \* socket_ is connected to a remote endpoint
    reuse,       \* socket option reuse_address is set
    member,      \* socket_ has joined the multicast group
    rbytes       \* rbytes[k]: the bytes the receive of datagram k transfers

vars == <<is_open, socket, queue, pc, buf, life, nopen, nrecv, nsend,
          handled, dropped, nflip, nclear, nrelease, failed, last,
          remote, reuse, member, rbytes>>

hist == <<nflip, nclear, nrelease, failed>>

\* What only connect(), the multicast calls and the network's datagrams set.
ext == <<remote, reuse, member, rbytes>>

\* The steps last records by name; every other step is recorded as "step".
Traced == {"send_noop", "connect_throw", "open_noop"}
Tag(t) == IF t \in Traced THEN t ELSE "step"

RECURSIVE SeqToSet(_)
SeqToSet(s) == IF s = <<>> THEN {} ELSE {Head(s)} \cup SeqToSet(Tail(s))

\* ------------------------------------------------------------------- Init
\* The state after the constructor: socket bound, flag false, queue empty,
\* worker_ default-constructed.
Constructed ==
    /\ is_open = FALSE
    /\ socket = "open"
    /\ queue = <<>>
    /\ pc = [p \in Procs |-> IF p \in Callers THEN "idle" ELSE "none"]
    /\ buf = [p \in Loops \cup Workers |-> 0]
    /\ life = "alive"
    /\ nopen = 0
    /\ nrecv = 0
    /\ nsend = 0
    /\ handled = <<>>
    /\ dropped = {}
    /\ nflip = 0
    /\ nclear = 0
    /\ nrelease = 0
    /\ failed = "no"
    /\ last = "step"
    /\ remote = FALSE
    /\ reuse = FALSE
    /\ member = FALSE

\* Every datagram the network delivers fills the receive buffer.
Init == Constructed /\ rbytes = [d \in 1..MaxRecv |-> ReceiveBufferSize]

\* The datagrams the network delivers carry any number of bytes up to the
\* size of the receive buffer.
InitSized == Constructed /\ rbytes \in [1..MaxRecv -> 0..ReceiveBufferSize]

\* receive_packet: std::vector<uint8_t> buffer(receive_buffer_size_), filled by
\* async_receive with `bytes` bytes (the count it reports is not used), then
\* receive_queue_.push(std::move(buffer)): the length of the vector pushed.
PushedLength(bytes) == ReceiveBufferSize

\* A caller may start an API call: the object is alive and the thread is not
\* inside another call.
CanCall(c) == life = "alive" /\ pc[c] = "idle"

\* What a read of is_open_ yields.  After the destructor has run the object is
\* gone and the detached worker and the coroutines read freed memory: either
\* value.
OpenReads == IF life = "destroyed" THEN BOOLEAN ELSE {is_open}

\* std::thread::joinable() of worker_ as the destructor sees it: open() has
\* detached the thread (or never started one), so it is never joinable.
WorkerJoinable == FALSE

\* ------------------------------------------------------- ConcurrentQueue
\* sanhok/container/concurrent_queue.hpp: a FIFO queue with a blocking pop.
\* push: append at the tail.
QueuePush(q, b) == Append(q, b)

\* pop_wait with a buffer queued: the buffer returned, and the queue it leaves.
QueueFront(q) == Head(q)
QueueRest(q) == Tail(q)

\* clear: drop every buffer; the threads parked in pop_wait are woken and
\* return no item.
QueueClearWake(p) == [w \in Procs |-> IF w \in Workers /\ p[w] = "wait" THEN "woken" ELSE p[w]]

\* ------------------------------------------------------------------ open
\* Open without the test of the flag: every call starts a loop and a worker.
OpenNoGuard(c) ==
    /\ CanCall(c)
    /\ last' = Tag(IF is_open THEN "open_noop" ELSE "open")
    /\ nopen < MaxOpens
    /\ is_open' = TRUE
    /\ nopen' = nopen + 1
    /\ pc' = [pc EXCEPT ![<<"recv", nopen + 1>>] = "loop",
                        ![<<"worker", nopen + 1>>] = "check"]
    /\ UNCHANGED <<socket, queue, buf, life, nrecv, nsend, handled, dropped, hist>>
    /\ UNCHANGED ext

\* open(): exchange(true); on a flip, co_spawn the receive loop and start and
\* detach the dispatch thread.
Open(c) ==
    /\ CanCall(c)
    /\ last' = Tag(IF is_open THEN "open_noop" ELSE "open")
    /\ IF is_open
       THEN UNCHANGED <<is_open, pc, nopen>>
       ELSE /\ nopen < MaxOpens
            /\ is_open' = TRUE
            /\ nopen' = nopen + 1
            /\ pc' = [pc EXCEPT ![<<"recv", nopen + 1>>] = "loop",
                                ![<<"worker", nopen + 1>>] = "check"]
    /\ UNCHANGED <<socket, queue, buf, life, nrecv, nsend, handled, dropped, hist>>
    /\ UNCHANGED ext

\* ----------------------------------------------------------------- close
\* Where close() returns to: a caller thread is idle again, receive_packet
\* co_returns into the loop of open(), a send coroutine ends.
AfterClose(p) == IF p \in Callers THEN "idle" ELSE IF p \in Loops THEN "loop" ELSE "done"

\* Where an exception leaving close() ends: the caller gets it, a detached
\* coroutine ends with it.
AfterThrow(p) == IF p \in Callers THEN "idle" ELSE "done"

\* The destructor's close() has returned: worker_ is not joinable, the
\* destructor returns.
LifeAfterClose(p) ==
    IF p \in Callers /\ life = "dying"
    THEN IF WorkerJoinable /\ \E w \in Workers : pc[w] \notin {"none", "done"}
         THEN "dying" ELSE "destroyed"
    ELSE life

\* close(), first statement: if (!is_open_.exchange(false)) return;
CloseEnter(p, tag) ==
    /\ is_open' = FALSE
    /\ last' = Tag(tag)
    /\ IF is_open
       THEN /\ pc' = [pc EXCEPT ![p] = "close_clear"]
            /\ nflip' = nflip + 1
            /\ life' = life
            /\ failed' = IF failed = "no" /\ p \notin Callers THEN p[1] ELSE failed
       ELSE /\ pc' = [pc EXCEPT ![p] = AfterClose(p)]
            /\ nflip' = nflip
            /\ life' = LifeAfterClose(p)
            /\ failed' = failed
    /\ UNCHANGED <<socket, queue, buf, nopen, nrecv, nsend, handled, dropped,
                   nclear, nrelease>>
    /\ UNCHANGED ext

\* close() called by a caller thread.
Close(c) ==
    /\ CanCall(c)
    /\ CloseEnter(c, IF is_open THEN "close" ELSE "close_noop")

\* ~ConnectionUDP(): close(); if (worker_.joinable()) worker_.join();
\* No other thread is inside a call on the object being destroyed.
Destroy(c) ==
    /\ CanCall(c)
    /\ \A d \in Callers : pc[d] = "idle"
    /\ is_open' = FALSE
    /\ last' = Tag("dtor")
    /\ IF is_open
       THEN /\ pc' = [pc EXCEPT ![c] = "close_clear"]
            /\ nflip' = nflip + 1
            /\ life' = "dying"
       ELSE /\ pc' = pc
            /\ nflip' = nflip
            /\ life' = "destroyed"
    /\ UNCHANGED <<socket, queue, buf, nopen, nrecv, nsend, handled, dropped,
                   nclear, nrelease, failed>>
    /\ UNCHANGED ext

\* close(), the log line and receive_queue_.clear().  The log line evaluates
\* local_endpoint(), which throws system_error (bad descriptor) on a closed
\* socket: the exception leaves close() before the queue is cleared, and
\* leaves the destructor (std::terminate).
CloseClear(p) ==
    /\ pc[p] = "close_clear"
    /\ life # "terminated"
    /\ IF socket = "closed"
       THEN /\ pc' = [pc EXCEPT ![p] = AfterThrow(p)]
            /\ life' = IF p \in Callers /\ life = "dying" THEN "terminated" ELSE life
            /\ last' = Tag("close_throw")
            /\ UNCHANGED <<queue, dropped, nclear>>
       ELSE /\ pc' = [QueueClearWake(pc) EXCEPT ![p] = "close_sock"]
            /\ queue' = <<>>
            /\ dropped' = dropped \cup SeqToSet(queue)
            /\ nclear' = nclear + 1
            /\ last' = Tag("close_clear")
            /\ life' = life
    /\ UNCHANGED <<is_open, socket, buf, nopen, nrecv, nsend, handled, nflip,
                   nrelease, failed>>
    /\ UNCHANGED ext

\* The places of a coroutine whose operation has completed with ec set:
\* "aborted" when closing the socket cancelled it (operation_aborted),
\* "ready_err" for every other error.
ErrorReady == {"ready_err", "aborted"}

\* An asynchronous operation waiting on the socket when the socket is closed
\* completes with operation_aborted.
Cancelled(p) == [q \in Procs |-> IF q \in Loops \cup Sends /\ p[q] = "pending" THEN "aborted" ELSE p[q]]

\* close(), socket_.close() inside the try block, and the return.
CloseSocket(p) ==
    /\ pc[p] = "close_sock"
    /\ life # "terminated"
    /\ socket' = "closed"
    /\ pc' = [Cancelled(pc) EXCEPT ![p] = AfterClose(p)]
    /\ nrelease' = nrelease + 1
    /\ life' = LifeAfterClose(p)
    /\ last' = Tag("close_socket")
    /\ UNCHANGED <<is_open, queue, buf, nopen, nrecv, nsend, handled, dropped,
                   nflip, nclear, failed>>
    /\ remote' = FALSE
    /\ reuse' = FALSE
    /\ member' = FALSE
    /\ UNCHANGED rbytes

\* ---------------------------------------------------------- receive loop
\* The coroutine of open(): while (is_open_) co_await receive_packet();
\* receive_packet: if (!is_open_) co_return; then async_receive into a fresh
\* buffer.  On a closed socket the operation completes at once with an error.
LoopCheck(l) ==
    /\ pc[l] = "loop"
    /\ life # "terminated"
    /\ \E v \in OpenReads :
         pc' = [pc EXCEPT ![l] = IF ~v THEN "done"
                                 ELSE IF socket = "open" THEN "pending"
                                 ELSE "ready_err"]
    /\ last' = Tag("loop_check")
    /\ UNCHANGED <<is_open, socket, queue, buf, life, nopen, nrecv, nsend,
                   handled, dropped, hist>>
    /\ UNCHANGED ext

\* The network: a datagram arrives and the outstanding async_receive
\* completes without error; its completion waits to resume the coroutine.
Arrive(l) ==
    /\ pc[l] = "pending"
    /\ life # "terminated"
    /\ nrecv < MaxRecv
    /\ nrecv' = nrecv + 1
    /\ buf' = [buf EXCEPT ![l] = nrecv + 1]
    /\ pc' = [pc EXCEPT ![l] = "ready_ok"]
    /\ last' = Tag("arrive")
    /\ UNCHANGED <<is_open, socket, queue, life, nopen, nsend, handled, dropped, hist>>
    /\ UNCHANGED ext

\* The network: the outstanding async_receive or async_send completes with
\* an error.
IoError(p) ==
    /\ p \in Loops \cup Sends
    /\ pc[p] = "pending"
    /\ life # "terminated"
    /\ pc' = [pc EXCEPT ![p] = "ready_err"]
    /\ last' = Tag("io_error")
    /\ UNCHANGED <<is_open, socket, queue, buf, life, nopen, nrecv, nsend,
                   handled, dropped, hist>>
    /\ UNCHANGED ext

\* RecvOk with the buffer pushed twice.
RecvOkTwice(l) ==
    /\ pc[l] = "ready_ok"
    /\ life # "terminated"
    /\ queue' = QueuePush(QueuePush(queue, buf[l]), buf[l])
    /\ buf' = [buf EXCEPT ![l] = 0]
    /\ pc' = [pc EXCEPT ![l] = "loop"]
    /\ last' = Tag("recv_ok")
    /\ UNCHANGED <<is_open, socket, life, nopen, nrecv, nsend, handled, dropped, hist>>
    /\ UNCHANGED ext

\* receive_packet resumed with no error: receive_queue_.push(std::move(buffer)),
\* back to the loop.
RecvOk(l) ==
    /\ pc[l] = "ready_ok"
    /\ life # "terminated"
    /\ queue' = QueuePush(queue, buf[l])
    /\ buf' = [buf EXCEPT ![l] = 0]
    /\ pc' = [pc EXCEPT ![l] = "loop"]
    /\ last' = Tag("recv_ok")
    /\ UNCHANGED <<is_open, socket, life, nopen, nrecv, nsend, handled, dropped, hist>>
    /\ UNCHANGED ext

\* RecvFail without the call of close(): log, co_return.
RecvFailNoClose(l) ==
    /\ pc[l] \in ErrorReady
    /\ l \in Loops
    /\ life # "terminated"
    /\ pc' = [pc EXCEPT ![l] = "loop"]
    /\ last' = Tag("recv_fail")
    /\ UNCHANGED <<is_open, socket, queue, buf, life, nopen, nrecv, nsend,
                   handled, dropped, hist>>
    /\ UNCHANGED ext

\* receive_packet resumed with ec set: log, close(), co_return.
RecvFail(l) ==
    /\ pc[l] \in ErrorReady
    /\ l \in Loops
    /\ life # "terminated"
    /\ CloseEnter(l, "recv_fail")

\* ------------------------------------------------------- dispatch worker
\* The thread of open(), at while (is_open_): leave, or call pop_wait.
WorkerCheck(w) ==
    /\ pc[w] = "check"
    /\ life # "terminated"
    /\ \E v \in OpenReads : pc' = [pc EXCEPT ![w] = IF v THEN "wait" ELSE "done"]
    /\ last' = Tag("worker_check")
    /\ UNCHANGED <<is_open, socket, queue, buf, life, nopen, nrecv, nsend,
                   handled, dropped, hist>>
    /\ UNCHANGED ext

\* pop_wait returns the head of the queue.
WorkerPop(w) ==
    /\ pc[w] = "wait"
    /\ life # "terminated"
    /\ queue # <<>>
    /\ buf' = [buf EXCEPT ![w] = QueueFront(queue)]
    /\ queue' = QueueRest(queue)
    /\ pc' = [pc EXCEPT ![w] = "popped"]
    /\ last' = Tag("pop")
    /\ UNCHANGED <<is_open, socket, life, nopen, nrecv, nsend, handled, dropped, hist>>
    /\ UNCHANGED ext

\* A worker that calls the handler with an empty buffer when pop_wait
\* returns no item.
WorkerWakeHandles(w) ==
    /\ pc[w] = "woken"
    /\ life # "terminated"
    /\ handled' = Append(handled, 0)
    /\ pc' = [pc EXCEPT ![w] = "handling"]
    /\ last' = Tag("worker_woken")
    /\ UNCHANGED <<is_open, socket, queue, buf, life, nopen, nrecv, nsend,
                   dropped, hist>>
    /\ UNCHANGED ext

\* pop_wait, woken by clear(), returns no item: if (!packet) return;
WorkerWake(w) ==
    /\ pc[w] = "woken"
    /\ life # "terminated"
    /\ pc' = [pc EXCEPT ![w] = "done"]
    /\ last' = Tag("worker_woken")
    /\ UNCHANGED <<is_open, socket, queue, buf, life, nopen, nrecv, nsend,
                   handled, dropped, hist>>
    /\ UNCHANGED ext

\* on_packet_(std::move(*packet)) is entered.
HandlerEnter(w) ==
    /\ pc[w] = "popped"
    /\ life # "terminated"
    /\ handled' = Append(handled, buf[w])
    /\ pc' = [pc EXCEPT ![w] = "handling"]
    /\ last' = Tag("handler_enter")
    /\ UNCHANGED <<is_open, socket, queue, buf, life, nopen, nrecv, nsend, dropped, hist>>
    /\ UNCHANGED ext

\* A worker that leaves its loop after the first packet.
HandlerReturnExits(w) ==
    /\ pc[w] = "handling"
    /\ life # "terminated"
    /\ buf' = [buf EXCEPT ![w] = 0]
    /\ pc' = [pc EXCEPT ![w] = "done"]
    /\ last' = Tag("handler_return")
    /\ UNCHANGED <<is_open, socket, queue, life, nopen, nrecv, nsend, handled,
                   dropped, hist>>
    /\ UNCHANGED ext

\* on_packet_ returns; back to while (is_open_).
HandlerReturn(w) ==
    /\ pc[w] = "handling"
    /\ life # "terminated"
    /\ buf' = [buf EXCEPT ![w] = 0]
    /\ pc' = [pc EXCEPT ![w] = "check"]
    /\ last' = Tag("handler_return")
    /\ UNCHANGED <<is_open, socket, queue, life, nopen, nrecv, nsend, handled,
                   dropped, hist>>
    /\ UNCHANGED ext

\* ------------------------------------------------------------------ send
\* SendPacket without the check of is_open_.
SendPacketNoGuard(c) ==
    /\ CanCall(c)
    /\ last' = Tag(IF is_open THEN "send" ELSE "send_noop")
    /\ nsend < MaxSends
    /\ nsend' = nsend + 1
    /\ pc' = [pc EXCEPT ![<<"send", nsend + 1>>] = "spawned"]
    /\ UNCHANGED <<is_open, socket, queue, buf, life, nopen, nrecv, handled,
                   dropped, hist>>
    /\ UNCHANGED ext

\* send_packet: if (!is_open_) return; otherwise co_spawn the send coroutine,
\* which owns the packet.
SendPacket(c) ==
    /\ CanCall(c)
    /\ last' = Tag(IF is_open THEN "send" ELSE "send_noop")
    /\ IF ~is_open
       THEN UNCHANGED <<pc, nsend>>
       ELSE /\ nsend < MaxSends
            /\ nsend' = nsend + 1
            /\ pc' = [pc EXCEPT ![<<"send", nsend + 1>>] = "spawned"]
    /\ UNCHANGED <<is_open, socket, queue, buf, life, nopen, nrecv, handled,
                   dropped, hist>>
    /\ UNCHANGED ext

\* The send coroutine starts: socket_.async_send.  On a closed socket the
\* operation completes at once with an error.
SendStart(s) ==
    /\ pc[s] = "spawned"
    /\ life # "terminated"
    /\ pc' = [pc EXCEPT ![s] = IF socket = "open" THEN "pending" ELSE "ready_err"]
    /\ last' = Tag("send_start")
    /\ UNCHANGED <<is_open, socket, queue, buf, life, nopen, nrecv, nsend,
                   handled, dropped, hist>>
    /\ UNCHANGED ext

\* async_send completes without error and the coroutine ends.
SendOk(s) ==
    /\ s \in Sends
    /\ pc[s] = "pending"
    /\ life # "terminated"
    /\ pc' = [pc EXCEPT ![s] = "done"]
    /\ last' = Tag("send_ok")
    /\ UNCHANGED <<is_open, socket, queue, buf, life, nopen, nrecv, nsend,
                   handled, dropped, hist>>
    /\ UNCHANGED ext

\* The send coroutine resumed with ec set: log, close(), co_return.
SendFail(s) ==
    /\ pc[s] \in ErrorReady
    /\ s \in Sends
    /\ life # "terminated"
    /\ CloseEnter(s, "send_fail")

\* ------------------------------------------------- connect and multicast
\* connect(): socket_.connect(remote_endpoint) inside try/catch, then the log
\* line, outside the try block, that reads socket_.remote_endpoint() twice.
\* socket_.connect opens a closed socket first; the connect itself succeeds or
\* fails as the network stack decides, and a failed one may or may not keep
\* an earlier association.  remote_endpoint() throws on a socket that is not
\* connected, and nothing in connect() catches that.
Connect(c) ==
    /\ CanCall(c)
    /\ \E opened \in (IF socket = "closed" THEN BOOLEAN ELSE {TRUE}), ok \in BOOLEAN :
         \E r \in (IF opened /\ ok THEN {TRUE} ELSE {remote, FALSE}) :
            /\ socket' = IF opened THEN "open" ELSE "closed"
            /\ remote' = r
            /\ last' = Tag(IF opened /\ ok THEN "connect"
                           ELSE IF r THEN "connect_fail" ELSE "connect_throw")
    /\ UNCHANGED <<is_open, queue, pc, buf, life, nopen, nrecv, nsend, handled,
                   dropped, hist, reuse, member, rbytes>>

\* A variant of join_multicast_group that closes the connection when an
\* option call fails.
JoinMulticastGroupCloses(c) ==
    /\ CanCall(c)
    /\ \E ok1 \in (IF socket = "open" THEN BOOLEAN ELSE {FALSE}) :
       \E ok2 \in (IF socket = "open" /\ ~member THEN BOOLEAN ELSE {FALSE}) :
         IF ok1 /\ ok2
         THEN /\ reuse' = TRUE
              /\ member' = TRUE
              /\ last' = Tag("join")
              /\ UNCHANGED <<is_open, socket, queue, pc, buf, life, nopen, nrecv,
                             nsend, handled, dropped, hist, remote, rbytes>>
         ELSE CloseEnter(c, "join_fail")

\* join_multicast_group(): set_option(reuse_address(true), ec) ||
\* set_option(join_group(address), ec); the second call is made only when the
\* first succeeded.  A failure is logged.  Every option call on a closed
\* socket fails, and joining a group the socket is already in fails.
JoinMulticastGroup(c) ==
    /\ CanCall(c)
    /\ \E ok1 \in (IF socket = "open" THEN BOOLEAN ELSE {FALSE}) :
       \E ok2 \in (IF socket = "open" /\ ~member THEN BOOLEAN ELSE {FALSE}) :
         /\ reuse' = (reuse \/ ok1)
         /\ member' = (member \/ (ok1 /\ ok2))
         /\ last' = Tag(IF ok1 /\ ok2 THEN "join" ELSE "join_fail")
    /\ UNCHANGED <<is_open, socket, queue, pc, buf, life, nopen, nrecv, nsend,
                   handled, dropped, hist, remote, rbytes>>

\* leave_multicast_group(): set_option(leave_group(address), ec); a failure is
\* logged.  Leaving a group the socket is not in fails.
LeaveMulticastGroup(c) ==
    /\ CanCall(c)
    /\ \E ok \in (IF socket = "open" /\ member THEN BOOLEAN ELSE {FALSE}) :
         /\ member' = (member /\ ~ok)
         /\ last' = Tag(IF ok THEN "leave" ELSE "leave_fail")
    /\ UNCHANGED <<is_open, socket, queue, pc, buf, life, nopen, nrecv, nsend,
                   handled, dropped, hist, remote, reuse, rbytes>>

\* close(), the receive loops and the workers.
Receiving ==
    \/ \E c \in Callers : Close(c)
    \/ \E p \in Closers : CloseClear(p)
    \/ \E p \in Closers : CloseSocket(p)
    \/ \E l \in Loops : LoopCheck(l)
    \/ \E l \in Loops : Arrive(l)
    \/ \E p \in Loops \cup Sends : IoError(p)
    \/ \E l \in Loops : RecvOk(l)
    \/ \E l \in Loops : RecvFail(l)
    \/ \E w \in Workers : WorkerCheck(w)
    \/ \E w \in Workers : WorkerPop(w)
    \/ \E w \in Workers : WorkerWake(w)
    \/ \E w \in Workers : HandlerEnter(w)
    \/ \E w \in Workers : HandlerReturn(w)

\* send_packet() and its coroutines.
Sending ==
    \/ \E c \in Callers : SendPacket(c)
    \/ \E s \in Sends : SendStart(s)
    \/ \E s \in Sends : SendOk(s)
    \/ \E s \in Sends : SendFail(s)

\* Every step but a call of open().
Others ==
    \/ \E c \in Callers : Destroy(c)
    \/ Receiving
    \/ Sending

Next ==
    \/ \E c \in Callers : Open(c)
    \/ Others

Spec == Init /\ [][Next]_vars

\* The threads and coroutines inside close(), past the exchange.
InClose == {p \in Closers : pc[p] \in {"close_clear", "close_sock"}}

\* The same program used so that open() flips the flag only when no close()
\* is in progress: the application reopens the connection only after the
\* previous teardown has finished.
OpenQuiet(c) == (is_open \/ InClose = {}) /\ Open(c)
NextQuiet ==
    \/ \E c \in Callers : OpenQuiet(c)
    \/ Others
SpecQuiet == Init /\ [][NextQuiet]_vars

\* A connection that is opened, closed and reopened and receives datagrams of
\* every length.
NextReceive ==
    \/ \E c \in Callers : OpenQuiet(c)
    \/ Receiving
SpecSized == InitSized /\ [][NextReceive]_vars

\* The io_context keeps running completed receives and the dispatch threads
\* keep being scheduled: a receive coroutine whose receive has completed is
\* resumed, a worker that can take a step takes it, a handler returns.
Scheduled ==
    /\ \A l \in Loops : WF_vars(RecvOk(l))
    /\ \A w \in Workers :
          WF_vars(WorkerCheck(w) \/ WorkerPop(w) \/ WorkerWake(w)
                    \/ HandlerEnter(w) \/ HandlerReturn(w))
SpecLive == Init /\ [][NextQuiet]_vars /\ Scheduled

\* A connection that is opened, closed and reopened, receives, and is
\* connected to remote endpoints along the way.
NextConnect ==
    \/ \E c \in Callers : OpenQuiet(c)
    \/ Receiving
    \/ \E c \in Callers : Connect(c)
SpecConnect == Init /\ [][NextConnect]_vars

\* A connection that is opened, closed and reopened, receives and sends, and
\* joins and leaves a multicast group along the way.
NextMulticast ==
    \/ \E c \in Callers : OpenQuiet(c)
    \/ Receiving
    \/ Sending
    \/ \E c \in Callers : JoinMulticastGroup(c)
    \/ \E c \in Callers : LeaveMulticastGroup(c)
SpecMulticast == Init /\ [][NextMulticast]_vars

\* ============================================================== properties
Alive == life = "alive"

RECURSIVE Count(_, _)
\* How many times d occurs in the sequence s.
Count(s, d) == IF s = <<>> THEN 0
               ELSE (IF Head(s) = d THEN 1 ELSE 0) + Count(Tail(s), d)

\* The dispatch threads that have been started and have not returned.
LiveWorkers == {w \in Workers : pc[w] \notin {"none", "done"}}
\* The dispatch threads inside on_packet_.
InHandler == {w \in Workers : pc[w] = "handling"}
\* The receive coroutines whose async_receive is waiting on the socket.
PendingReceives == {l \in Loops : pc[l] = "pending"}
\* --------------------------------------------------------------------- C1
\* C1: the handler is entered with the received datagrams in the order in
\* which their receives completed (datagram k is the k-th completed receive):
\* while the object is alive, handled is strictly increasing.
C1_HandledInReceiveOrder ==
    Alive => \A i \in 1..Len(handled) : \A j \in 1..Len(handled) :
                 i < j => handled[i] < handled[j]

\* --------------------------------------------------------------------- C2
\* Where a received datagram can be before the handler gets it: in the buffer
\* of a completed receive, in the queue, or popped by a worker.
InTransit(d) ==
    Cardinality({l \in Loops : pc[l] = "ready_ok" /\ buf[l] = d})
    + Count(queue, d)
    + Cardinality({w \in Workers : pc[w] = "popped" /\ buf[w] = d})

\* C2 as claimed: every successfully received datagram is handed to the
\* handler exactly once: it is on its way to the handler or has been handed
\* to it once, never lost.
C2_ExactlyOnce ==
    Alive => \A d \in 1..nrecv : InTransit(d) + Count(handled, d) = 1

\* C2 as amended: the handler is entered at most once per received datagram,
\* and a datagram that is neither on its way nor handled is one that close()
\* discarded when it cleared the queue.
C2_AtMostOnceOrDropped ==
    \A d \in 1..nrecv :
        /\ Count(handled, d) <= 1
        /\ InTransit(d) + Count(handled, d) + (IF d \in dropped THEN 1 ELSE 0) = 1

\* C2 witness: one datagram was handed to the handler and another one was
\* discarded by close().
C2_Witness == Len(handled) >= 1 /\ dropped # {}

\* --------------------------------------------------------------------- C3
\* C3: at most one handler invocation is in progress (and hence at most one
\* dispatch worker is running the handler), while the object is alive.
C3_HandlerSerialized == Alive => Cardinality(InHandler) <= 1

\* --------------------------------------------------------------------- C4
\* C4: at most one asynchronous receive is waiting on the socket.
C4_OneReceiveInFlight == Alive => Cardinality(PendingReceives) <= 1

\* --------------------------------------------------------------------- C5
\* C5: every close() that flips the flag runs one full teardown: when no
\* thread is inside close(), the queue has been cleared once and the socket
\* closed once per flip, the flag is false exactly when every session has
\* been closed, and a close() of a closed connection changes nothing.
C5_OneTeardownPerClose ==
    Alive =>
        /\ nflip <= nopen
        /\ nclear <= nflip
        /\ nrelease <= nclear
        /\ is_open <=> nflip < nopen
        /\ InClose = {} => nclear = nflip /\ nrelease = nflip

\* --------------------------------------------------------------------- C6
\* C6: the destructor returns only when the dispatch worker has exited: at
\* the step that completes the destruction no handler invocation is running.
C6_NoHandlerAtDestruction ==
    [][life # "destroyed" /\ life' = "destroyed" => InHandler' = {}]_vars

\* --------------------------------------------------------------------- C7
\* C7: a send_packet that finds the connection closed changes nothing: no
\* coroutine is spawned (the packet is not retained), the caller is idle
\* again, and flag, queue and socket are as before.
C7_SendClosedNoop ==
    [][last' = "send_noop" =>
          UNCHANGED <<is_open, socket, queue, pc, buf, nsend, life>>]_vars

\* C7 witness: send_packet was called after close() and before the first open().
C7_Witness == last = "send_noop" /\ nflip >= 1 /\ ~is_open

\* --------------------------------------------------------------------- C8
\* C8: the step in which a coroutine handles a completion with an error is
\* the exchange of close(): it leaves the flag false, the coroutine is in the
\* teardown or past it, and no caller thread is affected.
C8_FailureCloses ==
    [][\A p \in Loops \cup Sends :
          pc[p] \in ErrorReady /\ pc'[p] \notin ErrorReady =>
              /\ ~is_open'
              /\ pc'[p] = IF is_open THEN "close_clear" ELSE AfterClose(p)
              /\ \A c \in Callers : pc'[c] = pc[c]]_vars

\* C8 witness: a failed send has flipped the flag and its coroutine is in the
\* teardown.
C8_Witness ==
    /\ failed = "send"
    /\ ~is_open
    /\ \E s \in Sends : pc[s] = "close_clear"

\* --------------------------------------------------------------------- C9
\* C9: once a receive failure has closed the connection, and while it is
\* closed, no handler invocation begins.
C9_NoHandlerAfterReceiveFailure ==
    [][Alive /\ failed = "recv" /\ ~is_open /\ ~is_open' => handled' = handled]_vars

\* -------------------------------------------------------------------- C10
\* C10: once a failure has closed the connection, is_open() stays false.
C10_FailedStaysClosed == Alive /\ failed # "no" => ~is_open

\* C11: a connect() whose socket connect fails surfaces no error to its
\* caller: no step is a connect() that ends in an exception.
C11_ConnectFailureContained == last # "connect_throw"

\* C12: a step of join_multicast_group or leave_multicast_group, whether its
\* option calls succeed or fail, leaves is_open_, the socket, the queue, the
\* receive loops, the sends, the workers and every close() alone.
C12_MulticastFrame ==
    [][(\E c \in Callers : JoinMulticastGroup(c) \/ LeaveMulticastGroup(c)) =>
         UNCHANGED <<is_open, socket, queue, pc, buf, life, nopen, nrecv,
                     nsend, handled, dropped, hist, remote>>]_vars
\* C12: the socket is in the group while the connection is open and a
\* receive is waiting.
C12_Witness == is_open /\ member /\ PendingReceives # {}

\* C13: while the connection stays open (no close() has flipped the flag,
\* which every I/O error handled leads to, and the object is alive), no
\* received datagram is dropped, and every datagram whose receive completed
\* without error is eventually passed to the handler.
C13_EventuallyHandled ==
    /\ [](Alive /\ nflip = 0 => dropped = {})
    /\ \A d \in 1..MaxRecv :
          (nrecv >= d) ~> (d \in SeqToSet(handled) \/ nflip > 0 \/ ~Alive)
\* C13: every datagram of the run has been handled and the connection was
\* never closed.
C13_Witness == Alive /\ nflip = 0 /\ Len(handled) >= 2 /\ dropped = {}

\* C14: the buffer the handler is given for a datagram has the length of the
\* bytes received, for every received length from 0 to the buffer size.
C14_HandledLengthIsReceived ==
    \A i \in 1..Len(handled) : PushedLength(rbytes[handled[i]]) = rbytes[handled[i]]

\* C15: when is_open() is false and no close() is in progress, no receive is
\* waiting on the socket and no dispatch worker is inside the handler.
C15_ClosedMeansStopped ==
    Alive /\ ~is_open /\ InClose = {} => PendingReceives = {} /\ InHandler = {}

\* C16: a step starts a receive loop or a dispatch worker only by flipping
\* is_open_ from false to true, and then it starts exactly one loop and one
\* worker; on an open connection nothing is started, whoever calls open().
C16_OpenIdempotent ==
    [][LET Started == {p \in Loops \cup Workers : pc[p] = "none" /\ pc'[p] # "none"}
       IN  IF ~is_open /\ is_open'
           THEN /\ nopen' = nopen + 1
                /\ Started = {<<"recv", nopen'>>, <<"worker", nopen'>>}
           ELSE /\ nopen' = nopen
                /\ Started = {}]_vars
\* C16: open() has just returned without effect on a connection that an
\* earlier open() opened.
C16_Witness == last = "open_noop" /\ is_open /\ nopen = 1

\* C17: once the connection is closed, no close() is in progress, every
\* receive loop and send has finished and the queue is empty (so that only a
\* later open() could change anything), no dispatch worker is left parked in
\* pop_wait.
C17_NoWorkerLeftParked ==
    Alive /\ ~is_open /\ InClose = {} /\ queue = <<>>
          /\ (\A p \in Loops \cup Sends : pc[p] \in {"none", "done"})
      => \A w \in Workers : pc[w] # "wait"

\* C18: the handler is given only datagrams that were received, each at most
\* once, so never more often than receives completed without error.
C18_HandledWereReceived ==
    /\ Len(handled) <= nrecv
    /\ \A i \in 1..Len(handled) : handled[i] \in 1..nrecv
    /\ \A i \in 1..Len(handled) : \A j \in 1..Len(handled) :
          handled[i] = handled[j] => i = j
\* C18: two different datagrams have been handed to the handler.
C18_Witness == Len(handled) >= 2 /\ handled[1] # handled[2]

\* C19: once every close() that flipped the flag has cleared the queue and
\* returned, and the connection is closed, the queue is empty.
C19_EmptyAfterClose ==
    Alive /\ ~is_open /\ InClose = {} /\ nflip >= 1 /\ nclear = nflip => queue = <<>>

\* C20: the completion of a receive or send that an earlier close() aborted
\* does not close a connection that is open when the completion is handled.
C20_StaleFailureSparesLaterSession ==
    [][\A p \in Loops \cup Sends :
         pc[p] = "aborted" /\ pc'[p] # "aborted" => (is_open => is_open')]_vars

====
